---- MODULE Spec2Model ----
(***************************************************************************)
(* A model of the serial monitor of src/src/main.rs: the reader task that  *)
(* assembles lines from the bytes of the serial port, the writer task that *)
(* writes the submitted commands to it, the unbounded channels, and the    *)
(* session loop of main (render, drain of the inbound channel, one         *)
(* keyboard event per tick), with the failures of the port, of the log     *)
(* file and of the terminal.                                               *)
(*                                                                         *)
(* A Rust String is modelled as the sequence of its UTF-8 bytes, a char as *)
(* its code point.                                                         *)
(***************************************************************************)
EXTENDS Integers, Sequences, FiniteSets, TLC

\* ------------------------------------------------------------------ bounds

\* The cap of output_lines. main.rs:192 sets 1000; the model runs with a small
\* cap so that evictions happen within the bounds below.
MAX_LINES == 5

\* SpecTranscript: commands the operator submits and lines the device sends in
\* one run, at most.
TrMaxSubmits == 4
TrMaxDevLines == 4

\* Spec: commands the operator submits and lines the device sends in one run,
\* at most.
MaxSubmits == 2
MaxDevLines == 2

\* SpecAssembler: lines the device sends in one run, at most.
AsmMaxLines == 2

\* SpecEditor: bytes of the input the operator types into and commands
\* submitted in one run, at most.
EdMaxInput == 1
EdMaxSubmits == 2

\* SpecWriter: commands the operator submits in one run, at most.
WrMaxSubmits == 3

\* SpecReadErr: lines the device sends and reads that fail in one run, at most.
RdMaxLines == 3
RdMaxErrs == 3

\* SpecLive: lines that wait in the inbound channel, at most.
LiveMaxQueue == 2

\* SpecErrors: lines the device sends, commands the operator submits and
\* errors reported in one run, at most.
ErrMaxLines == 2
ErrMaxSubmits == 1
ErrMaxReports == 2

\* ------------------------------------------------------- program constants

\* PageUp / PageDown step (main.rs:337, main.rs:340).
ScrollStep == 3

\* Size of the reader's buffer (main.rs:135).
BufSize == 512

\* "[Arduino] " (main.rs:249) and "> " (main.rs:290), as bytes.
ArduinoPrefix == <<91, 65, 114, 100, 117, 105, 110, 111, 93, 32>>
SubmitPrefix == <<62, 32>>

\* "ERROR" (main.rs:244), as bytes.
ErrorMarker == <<69, 82, 82, 79, 82>>

\* '\n' and '\r' (main.rs:142).
LF == 10
CR == 13

\* char::REPLACEMENT_CHARACTER, pushed by String::from_utf8_lossy (main.rs:140).
REPLACEMENT == 65533

\* ---------------------------------------------------------------- helpers

Min(a, b) == IF a <= b THEN a ELSE b

\* usize::saturating_sub
SatSub(a, b) == IF a >= b THEN a - b ELSE 0

\* Option<usize>: None is the empty sequence, Some(i) is <<i>>.
None == <<>>
Some(i) == <<i>>

\* s[from..] with 0-based from, as a sequence.
Drop(s, n) == SubSeq(s, n + 1, Len(s))

\* All sequences over S of length 0..n.
SeqsUpTo(S, n) == UNION {[1..k -> S] : k \in 0..n}

\* char::encode_utf8
EncodeUtf8(cp) ==
    IF cp < 128 THEN <<cp>>
    ELSE IF cp < 2048 THEN <<192 + (cp \div 64), 128 + (cp % 64)>>
    ELSE IF cp < 65536
         THEN <<224 + (cp \div 4096), 128 + ((cp \div 64) % 64), 128 + (cp % 64)>>
    ELSE <<240 + (cp \div 262144), 128 + ((cp \div 4096) % 64),
           128 + ((cp \div 64) % 64), 128 + (cp % 64)>>

\* The UTF-8 bytes of a sequence of chars.
RECURSIVE EncodeStr(_)
EncodeStr(cs) == IF cs = <<>> THEN <<>> ELSE EncodeUtf8(Head(cs)) \o EncodeStr(Tail(cs))

\* core::str::utf8_char_width
Utf8CharWidth(b) ==
    IF b < 128 THEN 1
    ELSE IF b >= 194 /\ b <= 223 THEN 2
    ELSE IF b >= 224 /\ b <= 239 THEN 3
    ELSE IF b >= 240 /\ b <= 244 THEN 4
    ELSE 0

\* safe_get of core::str::lossy: the byte at 1-based i, or 0 past the end.
SafeGet(bs, i) == IF i <= Len(bs) THEN bs[i] ELSE 0

\* byte & 192 == TAG_CONT
IsCont(b) == b >= 128 /\ b <= 191

\* The second byte of a three-byte and of a four-byte sequence, as
\* Utf8Chunks::next accepts it.
Second3Ok(b1, b2) ==
    \/ b1 = 224 /\ b2 >= 160 /\ b2 <= 191
    \/ b1 >= 225 /\ b1 <= 236 /\ IsCont(b2)
    \/ b1 = 237 /\ b2 >= 128 /\ b2 <= 159
    \/ b1 >= 238 /\ b1 <= 239 /\ IsCont(b2)

Second4Ok(b1, b2) ==
    \/ b1 = 240 /\ b2 >= 144 /\ b2 <= 191
    \/ b1 >= 241 /\ b1 <= 243 /\ IsCont(b2)
    \/ b1 = 244 /\ b2 >= 128 /\ b2 <= 143

\* String::from_utf8_lossy(bytes).chars(): every maximal invalid part becomes
\* one REPLACEMENT.
RECURSIVE FromUtf8Lossy(_)
FromUtf8Lossy(bs) ==
    IF bs = <<>> THEN <<>>
    ELSE LET b1 == bs[1]
             b2 == SafeGet(bs, 2)
             b3 == SafeGet(bs, 3)
             b4 == SafeGet(bs, 4)
             w  == Utf8CharWidth(b1)
         IN  IF w = 1 THEN <<b1>> \o FromUtf8Lossy(Drop(bs, 1))
             ELSE IF w = 2 THEN
                 IF IsCont(b2)
                 THEN <<(b1 - 192) * 64 + (b2 - 128)>> \o FromUtf8Lossy(Drop(bs, 2))
                 ELSE <<REPLACEMENT>> \o FromUtf8Lossy(Drop(bs, 1))
             ELSE IF w = 3 THEN
                 IF ~Second3Ok(b1, b2) THEN <<REPLACEMENT>> \o FromUtf8Lossy(Drop(bs, 1))
                 ELSE IF ~IsCont(b3) THEN <<REPLACEMENT>> \o FromUtf8Lossy(Drop(bs, 2))
                 ELSE <<(b1 - 224) * 4096 + (b2 - 128) * 64 + (b3 - 128)>>
                          \o FromUtf8Lossy(Drop(bs, 3))
             ELSE IF w = 4 THEN
                 IF ~Second4Ok(b1, b2) THEN <<REPLACEMENT>> \o FromUtf8Lossy(Drop(bs, 1))
                 ELSE IF ~IsCont(b3) THEN <<REPLACEMENT>> \o FromUtf8Lossy(Drop(bs, 2))
                 ELSE IF ~IsCont(b4) THEN <<REPLACEMENT>> \o FromUtf8Lossy(Drop(bs, 3))
                 ELSE <<(b1 - 240) * 262144 + (b2 - 128) * 4096 + (b3 - 128) * 64 + (b4 - 128)>>
                          \o FromUtf8Lossy(Drop(bs, 4))
             ELSE <<REPLACEMENT>> \o FromUtf8Lossy(Drop(bs, 1))

\* str::is_char_boundary, idx 0-based.
IsCharBoundary(s, idx) ==
    IF idx = 0 THEN TRUE
    ELSE IF idx >= Len(s) THEN idx = Len(s)
    ELSE ~IsCont(s[idx + 1])

\* char::is_whitespace (the White_Space property).
IsWhitespace(cp) ==
    \/ cp \in {9, 10, 11, 12, 13, 32, 133, 160, 5760, 8232, 8233, 8239, 8287, 12288}
    \/ cp >= 8192 /\ cp <= 8202

\* s.trim().is_empty() of a String s: s holds only whitespace.
TrimIsEmpty(s) == \A i \in 1..Len(FromUtf8Lossy(s)) : IsWhitespace(FromUtf8Lossy(s)[i])

\* str::contains
Contains(s, pat) == \E i \in 0..(Len(s) - Len(pat)) : SubSeq(s, i + 1, i + Len(pat)) = pat

\* ------------------------------------------------------------ environment

\* The characters of the keyboard events of the model: 'a', ' ' and the
\* two-byte 'e-acute'.
KeyChars == {97, 32, 233}

\* The characters of the device's lines: 'A' and the two-byte 'e-acute'.
DeviceChars == {65, 233}

\* The logical lines of the device: "", "A", "e-acute", "A e-acute".
DeviceTexts == SeqsUpTo(DeviceChars, 1) \cup {<<65, 233>>}

\* The line ends a device sends: "\n", "\r", "\r\n".
Terminators == {<<LF>>, <<CR>>, <<CR, LF>>}

\* ------------------------------------------------------------------ state

VARIABLES
    \* the serial port, device to host: the bytes not yet read
    wire,
    \* reader task: `line` (main.rs:136)
    line,
    \* the channel tx_serial / rx_serial (main.rs:128)
    chan_serial,
    \* the channel tx_write / rx_write (main.rs:129)
    chan_write,
    \* main: the locals of main.rs:184-189
    input, cursor_pos, output_lines, history, history_index, scroll_offset,
    \* args.no_log, and what log_to_file wrote to the log file
    no_log, log,
    \* the log file refuses writes: write_all in log_to_file returns Err
    log_broken,
    \* what eprintln! wrote on the standard error, one entry per report: "read",
    \* "write", "log" (main.rs:94, 155, 169)
    stderr,
    \* reader task's position: "read", "sleep" (main.rs:138, 156)
    rpc,
    \* writer task: its position "recv", "lock", "cmd", "newline"
    \* (main.rs:165-172), the command it received, and who holds the Mutex of
    \* the port's write half: "free", "writer" (main.rs:125, 166)
    wpc, wcmd, wlock,
    \* the serial port, host to device: the bytes written
    port_out,
    \* the terminal: raw mode and the alternate screen (main.rs:178-180)
    raw_mode, alt_screen,
    \* the operator pressed Escape and the key waits for event::read
    \* (main.rs:264-265), in the runs where the press is a step of its own
    esc_pressed,
    \* main's position: "draw", "drain", "poll", "cleanup", "exited", "panicked"
    mpc,
    \* history variables of the run: the logical lines the device sent, the
    \* lines the reader sent on tx_serial, the lines pushed on output_lines, the
    \* commands sent on tx_write, and output_lines.len() and scroll_offset as
    \* they were before the latest push (an Option); how many write_all calls
    \* on the port returned Err; and whether the run keeps the first four
    dev_lines, completed, appended, enqueued, last_append, write_fails, tracking

vars == <<wire, line, chan_serial, chan_write, input, cursor_pos, output_lines,
          history, history_index, scroll_offset, no_log, log, log_broken, stderr,
          rpc, wpc, wcmd, wlock, port_out, raw_mode, alt_screen, esc_pressed, mpc,
          dev_lines, completed, appended, enqueued, last_append, write_fails,
          tracking>>

readerVars == <<line, chan_serial, completed>>
editorVars == <<input, cursor_pos, history, history_index>>
transcriptVars == <<output_lines, scroll_offset, appended, log, stderr, last_append>>
termVars == <<raw_mode, alt_screen>>
writerVars == <<wpc, wcmd, wlock, port_out, write_fails>>

\* What the device, the successful reads and the session loop leave alone.
frameVars == <<no_log, tracking, log_broken, writerVars, rpc, esc_pressed>>

\* The process runs: main has neither returned nor panicked.
Running == mpc \notin {"exited", "panicked"}

\* A history variable after x joins it.
Record(h, x) == IF tracking THEN Append(h, x) ELSE h

\* The state when the session loop is entered (main.rs:104-192): the tasks are
\* spawned, the terminal is in raw mode and on the alternate screen.
Start ==
    /\ wire = <<>>
    /\ line = <<>>
    /\ chan_serial = <<>>
    /\ chan_write = <<>>
    /\ input = <<>>
    /\ cursor_pos = 0
    /\ output_lines = <<>>
    /\ history = <<>>
    /\ history_index = None
    /\ scroll_offset = 0
    /\ no_log \in BOOLEAN
    /\ log = <<>>
    /\ log_broken = FALSE
    /\ stderr = <<>>
    /\ rpc = "read"
    /\ wpc = "recv"
    /\ wcmd = <<>>
    /\ wlock = "free"
    /\ port_out = <<>>
    /\ raw_mode = TRUE
    /\ alt_screen = TRUE
    /\ esc_pressed = FALSE
    /\ mpc = "draw"
    /\ dev_lines = <<>>
    /\ completed = <<>>
    /\ appended = <<>>
    /\ enqueued = <<>>
    /\ last_append = None
    /\ write_fails = 0

Init == Start /\ tracking = TRUE

\* ------------------------------------------------------ device (environment)

\* The device sends one logical line and its line end. The bytes wait on the
\* port until reader.read (main.rs:138) takes them.
DeviceSend(text, term) ==
    /\ Running
    /\ wire' = wire \o EncodeStr(text) \o term
    /\ dev_lines' = Record(dev_lines, EncodeStr(text))
    /\ UNCHANGED <<readerVars, chan_write, editorVars, transcriptVars, frameVars,
                   termVars, mpc, enqueued>>

\* ------------------------------------------------------------ reader task

\* OnChar sending the pending line at every line end, also an empty one.
OnCharFlushEmpty(st, c) ==
    IF c = LF \/ c = CR
    THEN [line |-> <<>>, sent |-> Append(st.sent, st.line)]
    ELSE [line |-> st.line \o EncodeUtf8(c), sent |-> st.sent]

\* One char of the chunk (main.rs:141-150). st is [line, sent]: the pending
\* line and the lines sent on tx_serial so far.
OnChar(st, c) ==
    IF c = LF \/ c = CR
    THEN IF st.line # <<>>
         THEN [line |-> <<>>, sent |-> Append(st.sent, st.line)]
         ELSE st
    ELSE [line |-> st.line \o EncodeUtf8(c), sent |-> st.sent]

\* for c in chunk.chars() { ... }
RECURSIVE Feed(_, _)
Feed(st, cs) == IF cs = <<>> THEN st ELSE Feed(OnChar(st, Head(cs)), Tail(cs))

\* Send on a channel that holds one line and drops what does not fit.
SendBounded(chan, msgs) == SubSeq(chan \o msgs, 1, Min(Len(chan \o msgs), 1))

\* tx_serial.send of each of msgs, in order, on the unbounded channel
\* (main.rs:128, 144): nothing waits, nothing is dropped.
Send(chan, msgs) == chan \o msgs

\* The chars of a chunk of n bytes: String::from_utf8_lossy(&buf[..n]).
ChunkChars(bs) == FromUtf8Lossy(bs)

\* The lengths reader.read(&mut buf) may return when it returns Ok(n), n > 0:
\* bytes that wait, at most the buffer's size.
ReadLens == 1..Min(Len(wire), BufSize)

\* reader.read returns Ok(n), n > 0: the first n waiting bytes are decoded and fed to the line (main.rs:138-151). The
\* sends of one chunk are one step: tx_serial.send never waits, and a chunk
\* may end after any byte.
ReaderRead(n) ==
    /\ Running
    /\ rpc = "read"
    /\ LET st == Feed([line |-> line, sent |-> <<>>], ChunkChars(SubSeq(wire, 1, n)))
       IN  /\ line' = st.line
           /\ chan_serial' = Send(chan_serial, st.sent)
           /\ completed' = IF tracking THEN completed \o st.sent ELSE completed
    /\ wire' = Drop(wire, n)
    /\ UNCHANGED <<chan_write, editorVars, transcriptVars, frameVars, termVars, mpc,
                   dev_lines, enqueued>>

\* reader.read returns Ok(0): continue (main.rs:152).
ReaderReadZero ==
    /\ Running
    /\ rpc = "read"
    /\ UNCHANGED vars

\* ReaderReadErr throwing the pending line away.
ReaderReadErrDropsLine ==
    /\ Running
    /\ rpc = "read"
    /\ stderr' = Append(stderr, "read")
    /\ rpc' = "sleep"
    /\ line' = <<>>
    /\ UNCHANGED <<wire, chan_serial, completed, chan_write, editorVars, output_lines,
                   scroll_offset, appended, log, last_append, no_log, tracking,
                   log_broken, writerVars, termVars, esc_pressed, mpc, dev_lines,
                   enqueued>>

\* reader.read returns Err(e): eprintln!("Serial read error: {e}"), then the
\* task is in time::sleep(1 s) (main.rs:153-156). The bytes that wait on the
\* port and the pending line stay.
ReaderReadErr ==
    /\ Running
    /\ rpc = "read"
    /\ stderr' = Append(stderr, "read")
    /\ rpc' = "sleep"
    /\ UNCHANGED <<wire, readerVars, chan_write, editorVars, output_lines,
                   scroll_offset, appended, log, last_append, no_log, tracking,
                   log_broken, writerVars, termVars, esc_pressed, mpc, dev_lines,
                   enqueued>>

\* time::sleep(1 s) is over: the loop goes back to reader.read (main.rs:137,
\* 156).
ReaderWake ==
    /\ Running
    /\ rpc = "sleep"
    /\ rpc' = "read"
    /\ UNCHANGED <<wire, readerVars, chan_write, editorVars, transcriptVars, no_log,
                   tracking, log_broken, writerVars, termVars, esc_pressed, mpc,
                   dev_lines, enqueued>>

\* ------------------------------------------------------------- main: tick

\* terminal.draw and the cursor's Show / Hide (main.rs:195-240).
Draw ==
    /\ mpc = "draw"
    /\ mpc' = "drain"
    /\ UNCHANGED <<wire, readerVars, chan_write, editorVars, transcriptVars, frameVars,
                   termVars, dev_lines, enqueued>>

\* let start = output_lines.len().saturating_sub(visible_height + scroll_offset)
\* (main.rs:209-211).
VisibleStart(len, visible_height, off) == SatSub(len, visible_height + off)

\* The lines on the screen: output_lines[start..] (main.rs:212), of which the
\* Paragraph shows the first visible_height, the rows inside its borders
\* (main.rs:208, 214-217).
VisibleWindow(lines, visible_height, off) ==
    LET start == VisibleStart(Len(lines), visible_height, off)
    IN  SubSeq(lines, start + 1, Min(Len(lines), start + visible_height))

\* The log file starts to refuse writes (the disk is full, the file system
\* went away): from now on f.write_all in log_to_file returns Err (main.rs:93).
LogBreaks ==
    /\ Running
    /\ ~no_log
    /\ ~log_broken
    /\ log_broken' = TRUE
    /\ UNCHANGED <<wire, readerVars, chan_write, editorVars, transcriptVars, no_log,
                   tracking, writerVars, rpc, esc_pressed, termVars, mpc, dev_lines,
                   enqueued>>

\* CapLines with the cap tested one line late.
CapLinesLate(pushed) == IF Len(pushed) > MAX_LINES + 1 THEN Tail(pushed) ELSE pushed

\* CapLines dropping the newest line, not the oldest.
CapLinesNewest(pushed) ==
    IF Len(pushed) > MAX_LINES THEN SubSeq(pushed, 1, Len(pushed) - 1) ELSE pushed

\* if output_lines.len() > MAX_LINES { output_lines.remove(0); ... }
\* (main.rs:255-256, 299-300), on the lines after the push.
CapLines(pushed) == IF Len(pushed) > MAX_LINES THEN Tail(pushed) ELSE pushed

\* CapScroll following the tail on every push.
CapScrollFollow(pushed, off) == 0

\* ... if scroll_offset > 0 { scroll_offset = scroll_offset.saturating_sub(1) }
\* (main.rs:255-260, 299-304), on the lines after the push.
CapScroll(pushed, off) ==
    IF Len(pushed) > MAX_LINES
    THEN IF off > 0 THEN SatSub(off, 1) ELSE off
    ELSE off

\* log_to_file, when a log file is open (main.rs:252-254, 296-298, 89-96): the
\* log after f.write_all, which appends the entry or returns Err.
LogAfter(text) == IF no_log \/ log_broken THEN log ELSE Append(log, text)

\* ... and the standard error after it: eprintln!("Log write error: {e}")
\* when write_all returned Err (main.rs:93-95).
LogReport == IF ~no_log /\ log_broken THEN Append(stderr, "log") ELSE stderr

\* The Line of an inbound line (main.rs:244-250).
InboundLine(l) ==
    [text |-> ArduinoPrefix \o l,
     style |-> IF Contains(l, ErrorMarker) THEN "Red" ELSE "Green"]

\* The Line of a submitted command (main.rs:290-294).
OutboundLine(cmd) == [text |-> SubmitPrefix \o cmd, style |-> "Yellow"]

\* output_lines.push(l), the log and the cap (main.rs:250-260, 291-304).
Push(l) ==
    LET pushed == Append(output_lines, l)
    IN  /\ output_lines' = CapLines(pushed)
        /\ scroll_offset' = CapScroll(pushed, scroll_offset)
        /\ log' = LogAfter(l.text)
        /\ stderr' = LogReport
        /\ appended' = Record(appended, l)
        /\ last_append' = Some([len |-> Len(output_lines), off |-> scroll_offset])

\* One turn of `while let Ok(line) = rx_serial.try_recv()` (main.rs:243-261).
DrainLine ==
    /\ mpc = "drain"
    /\ chan_serial # <<>>
    /\ Push(InboundLine(Head(chan_serial)))
    /\ chan_serial' = Tail(chan_serial)
    /\ UNCHANGED <<wire, line, completed, chan_write, editorVars, frameVars, termVars,
                   mpc, dev_lines, enqueued>>

\* try_recv finds the channel empty: the loop ends (main.rs:243).
DrainDone ==
    /\ mpc = "drain"
    /\ chan_serial = <<>>
    /\ mpc' = "poll"
    /\ UNCHANGED <<wire, readerVars, chan_write, editorVars, transcriptVars, frameVars,
                   termVars, dev_lines, enqueued>>

\* event::poll finds no event, or an event that is no key or a key the match
\* ignores (main.rs:264-266, 343), then the sleep (main.rs:348).
PollNone ==
    /\ mpc = "poll"
    /\ mpc' = "draw"
    /\ UNCHANGED <<wire, readerVars, chan_write, editorVars, transcriptVars, frameVars,
                   termVars, dev_lines, enqueued>>

\* --------------------------------------------------------- main: the keys

\* String::insert(idx, c), idx a char boundary.
Insert(s, idx, c) == SubSeq(s, 1, idx) \o EncodeUtf8(c) \o Drop(s, idx)

\* String::insert panics when idx is no char boundary.
InsertPanics(s, idx) == ~IsCharBoundary(s, idx)

\* String::remove(idx): the char that starts at idx goes.
Remove(s, idx) == SubSeq(s, 1, idx) \o Drop(s, idx + Utf8CharWidth(s[idx + 1]))

\* String::remove panics when idx is no char boundary or is the end.
RemovePanics(s, idx) == ~IsCharBoundary(s, idx) \/ idx >= Len(s)

\* What no key but Enter, PageUp and PageDown touches.
KeyFrame == UNCHANGED <<wire, readerVars, chan_write, transcriptVars, frameVars, termVars,
                         dev_lines, enqueued>>

\* KeyCode::Char(c) (main.rs:268-271).
KeyChar(c) ==
    /\ mpc = "poll"
    /\ IF InsertPanics(input, cursor_pos)
       THEN /\ mpc' = "panicked"
            /\ UNCHANGED editorVars
       ELSE /\ input' = Insert(input, cursor_pos, c)
            /\ cursor_pos' = cursor_pos + 1
            /\ mpc' = "draw"
            /\ UNCHANGED <<history, history_index>>
    /\ KeyFrame

\* KeyCode::Backspace (main.rs:272-277).
KeyBackspace ==
    /\ mpc = "poll"
    /\ IF cursor_pos > 0
       THEN IF RemovePanics(input, cursor_pos - 1)
            THEN /\ mpc' = "panicked"
                 /\ UNCHANGED editorVars
            ELSE /\ input' = Remove(input, cursor_pos - 1)
                 /\ cursor_pos' = cursor_pos - 1
                 /\ mpc' = "draw"
                 /\ UNCHANGED <<history, history_index>>
       ELSE /\ mpc' = "draw"
            /\ UNCHANGED editorVars
    /\ KeyFrame

\* KeyCode::Left (main.rs:278-280).
KeyLeft ==
    /\ mpc = "poll"
    /\ cursor_pos' = SatSub(cursor_pos, 1)
    /\ mpc' = "draw"
    /\ UNCHANGED <<input, history, history_index>>
    /\ KeyFrame

\* KeyCode::Right (main.rs:281-285).
KeyRight ==
    /\ mpc = "poll"
    /\ cursor_pos' = IF cursor_pos < Len(input) THEN cursor_pos + 1 ELSE cursor_pos
    /\ mpc' = "draw"
    /\ UNCHANGED <<input, history, history_index>>
    /\ KeyFrame

\* Submits without the trim: only the empty input is ignored.
SubmitsUntrimmed(s) == s # <<>>

\* if !input.trim().is_empty() (main.rs:287).
Submits(s) == ~TrimIsEmpty(s)

\* KeyEnter keeping a command equal to the latest entry out of the history.
KeyEnterDedup ==
    /\ mpc = "poll"
    /\ IF Submits(input)
       THEN /\ history' = IF history # <<>> /\ history[Len(history)] = input
                          THEN history
                          ELSE Append(history, input)
            /\ chan_write' = Append(chan_write, input)
            /\ enqueued' = Record(enqueued, input)
            /\ Push(OutboundLine(input))
            /\ input' = <<>>
            /\ cursor_pos' = 0
            /\ history_index' = None
       ELSE UNCHANGED <<editorVars, chan_write, enqueued, transcriptVars>>
    /\ mpc' = "draw"
    /\ UNCHANGED <<wire, readerVars, frameVars, termVars, dev_lines>>

\* KeyCode::Enter (main.rs:286-309).
KeyEnter ==
    /\ mpc = "poll"
    /\ IF Submits(input)
       THEN /\ history' = Append(history, input)
            /\ chan_write' = Append(chan_write, input)
            /\ enqueued' = Record(enqueued, input)
            /\ Push(OutboundLine(input))
            /\ input' = <<>>
            /\ cursor_pos' = 0
            /\ history_index' = None
       ELSE UNCHANGED <<editorVars, chan_write, enqueued, transcriptVars>>
    /\ mpc' = "draw"
    /\ UNCHANGED <<wire, readerVars, frameVars, termVars, dev_lines>>

\* UpIndex without the clamp at the oldest entry: Up at index 0 leaves the
\* history.
UpIndexUnclamped ==
    IF history_index # None
    THEN IF history_index[1] > 0 THEN Some(history_index[1] - 1) ELSE None
    ELSE IF history # <<>> THEN Some(Len(history) - 1) ELSE None

\* The index KeyCode::Up moves to (main.rs:311-317), an Option.
UpIndex ==
    IF history_index # None
    THEN Some(SatSub(history_index[1], 1))
    ELSE IF history # <<>> THEN Some(Len(history) - 1) ELSE None

\* KeyUp taking the recalled entry out of the history.
KeyUpTake ==
    /\ mpc = "poll"
    /\ IF UpIndex # None
       THEN /\ input' = history[UpIndex[1] + 1]
            /\ cursor_pos' = Len(history[UpIndex[1] + 1])
            /\ history_index' = UpIndex
            /\ history' = SubSeq(history, 1, UpIndex[1]) \o Drop(history, UpIndex[1] + 1)
       ELSE UNCHANGED <<input, cursor_pos, history_index, history>>
    /\ mpc' = "draw"
    /\ KeyFrame

\* KeyCode::Up (main.rs:310-322).
KeyUp ==
    /\ mpc = "poll"
    /\ IF UpIndex # None
       THEN /\ input' = history[UpIndex[1] + 1]
            /\ cursor_pos' = Len(history[UpIndex[1] + 1])
            /\ history_index' = UpIndex
       ELSE UNCHANGED <<input, cursor_pos, history_index>>
    /\ mpc' = "draw"
    /\ UNCHANGED history
    /\ KeyFrame

\* KeyCode::Down (main.rs:323-335).
KeyDown ==
    /\ mpc = "poll"
    /\ IF history_index # None
       THEN IF history_index[1] + 1 < Len(history)
            THEN /\ input' = history[history_index[1] + 2]
                 /\ cursor_pos' = Len(history[history_index[1] + 2])
                 /\ history_index' = Some(history_index[1] + 1)
            ELSE /\ input' = <<>>
                 /\ cursor_pos' = 0
                 /\ history_index' = None
       ELSE UNCHANGED <<input, cursor_pos, history_index>>
    /\ mpc' = "draw"
    /\ UNCHANGED history
    /\ KeyFrame

\* PageUpOffset without the cap at the last line.
PageUpNoCap(off, len) == off + ScrollStep

\* The offset after KeyCode::PageUp (main.rs:337).
PageUpOffset(off, len) == Min(off + ScrollStep, SatSub(len, 1))

\* The offset after KeyCode::PageDown (main.rs:340).
PageDownOffset(off) == SatSub(off, ScrollStep)

\* KeyCode::PageUp (main.rs:336-338).
KeyPageUp ==
    /\ mpc = "poll"
    /\ scroll_offset' = PageUpOffset(scroll_offset, Len(output_lines))
    /\ mpc' = "draw"
    /\ UNCHANGED <<wire, readerVars, chan_write, editorVars, output_lines, appended,
                   log, stderr, last_append, frameVars, termVars, dev_lines,
                   enqueued>>

\* KeyCode::PageDown (main.rs:339-341).
KeyPageDown ==
    /\ mpc = "poll"
    /\ scroll_offset' = PageDownOffset(scroll_offset)
    /\ mpc' = "draw"
    /\ UNCHANGED <<wire, readerVars, chan_write, editorVars, output_lines, appended,
                   log, stderr, last_append, frameVars, termVars, dev_lines,
                   enqueued>>

\* KeyCode::Esc => break (main.rs:342).
KeyEsc ==
    /\ mpc = "poll"
    /\ mpc' = "cleanup"
    /\ UNCHANGED <<wire, readerVars, chan_write, editorVars, transcriptVars, frameVars,
                   termVars, dev_lines, enqueued>>

\* disable_raw_mode, LeaveAlternateScreen, Ok(()) (main.rs:351-357).
Cleanup ==
    /\ mpc = "cleanup"
    /\ raw_mode' = FALSE
    /\ alt_screen' = FALSE
    /\ mpc' = "exited"
    /\ UNCHANGED <<wire, readerVars, chan_write, editorVars, transcriptVars, frameVars,
                   dev_lines, enqueued>>

\* ---------------------------------------------------- main: the early exits

\* terminal.draw(..)? or execute!(.., Show / Hide)? returns Err (main.rs:200,
\* 234, 237, 239): the ? returns the error from main and the process ends;
\* lines 351-355 are not run.
DrawFails ==
    /\ mpc = "draw"
    /\ mpc' = "exited"
    /\ UNCHANGED <<wire, readerVars, chan_write, editorVars, transcriptVars, frameVars,
                   termVars, dev_lines, enqueued>>

\* event::poll(..)? or event::read()? returns Err (main.rs:264-265): the ?
\* returns the error from main and the process ends; lines 351-355 are not
\* run.
PollFails ==
    /\ mpc = "poll"
    /\ mpc' = "exited"
    /\ UNCHANGED <<wire, readerVars, chan_write, editorVars, transcriptVars, frameVars,
                   termVars, dev_lines, enqueued>>

\* disable_raw_mode()? returns Err (main.rs:351): main returns, the terminal is
\* as it was.
CleanupRawFails ==
    /\ mpc = "cleanup"
    /\ mpc' = "exited"
    /\ UNCHANGED <<wire, readerVars, chan_write, editorVars, transcriptVars, frameVars,
                   termVars, dev_lines, enqueued>>

\* disable_raw_mode() returns Ok and execute!(.., LeaveAlternateScreen, Show)?
\* returns Err (main.rs:351-355): the write of the escape sequences failed, the
\* screen was left or not.
CleanupLeaveFails ==
    /\ mpc = "cleanup"
    /\ raw_mode' = FALSE
    /\ alt_screen' \in BOOLEAN
    /\ mpc' = "exited"
    /\ UNCHANGED <<wire, readerVars, chan_write, editorVars, transcriptVars, frameVars,
                   dev_lines, enqueued>>

\* The operator presses Escape: the key event waits in the terminal's queue
\* until event::poll and event::read take it (main.rs:264-265).
PressEsc ==
    /\ Running
    /\ ~esc_pressed
    /\ esc_pressed' = TRUE
    /\ UNCHANGED <<wire, readerVars, chan_write, editorVars, transcriptVars, no_log,
                   tracking, log_broken, writerVars, rpc, termVars, mpc, dev_lines,
                   enqueued>>

\* ------------------------------------------------------------ writer task

\* What the writer task leaves alone.
WriterFrame == UNCHANGED <<wire, readerVars, editorVars, output_lines, scroll_offset,
                           appended, log, last_append, no_log, tracking, log_broken,
                           rpc, termVars, esc_pressed, mpc, dev_lines, enqueued>>

\* WriterRecv taking the newest command of the channel, not the oldest.
WriterRecvNewest ==
    /\ Running
    /\ wpc = "recv"
    /\ chan_write # <<>>
    /\ wcmd' = chan_write[Len(chan_write)]
    /\ chan_write' = SubSeq(chan_write, 1, Len(chan_write) - 1)
    /\ wpc' = "lock"
    /\ UNCHANGED <<wlock, port_out, write_fails, stderr>>
    /\ WriterFrame

\* rx_write.recv().await returns Some(cmd) (main.rs:165).
WriterRecv ==
    /\ Running
    /\ wpc = "recv"
    /\ chan_write # <<>>
    /\ wcmd' = Head(chan_write)
    /\ chan_write' = Tail(chan_write)
    /\ wpc' = "lock"
    /\ UNCHANGED <<wlock, port_out, write_fails, stderr>>
    /\ WriterFrame

\* writer.lock().await returns the guard (main.rs:166).
WriterLock ==
    /\ Running
    /\ wpc = "lock"
    /\ wlock = "free"
    /\ wlock' = "writer"
    /\ wpc' = "cmd"
    /\ UNCHANGED <<chan_write, wcmd, port_out, write_fails, stderr>>
    /\ WriterFrame

\* writer.write_all(cmd.as_bytes()) returns Ok (main.rs:167): the bytes of the
\* command are on the port.
WriterWriteCmd ==
    /\ Running
    /\ wpc = "cmd"
    /\ port_out' = port_out \o wcmd
    /\ wpc' = "newline"
    /\ UNCHANGED <<chan_write, wcmd, wlock, write_fails, stderr>>
    /\ WriterFrame

\* writer.write_all(cmd.as_bytes()) returns Err after k bytes of the command
\* went out, k less than its length: eprintln!("Serial write error: {e}"), no
\* newline is written, the guard is dropped at the end of the turn and the
\* loop goes back to recv (main.rs:167-173).
WriterWriteCmdFails(k) ==
    /\ Running
    /\ wpc = "cmd"
    /\ k < Len(wcmd)
    /\ port_out' = port_out \o SubSeq(wcmd, 1, k)
    /\ stderr' = Append(stderr, "write")
    /\ write_fails' = write_fails + 1
    /\ wlock' = "free"
    /\ wpc' = "recv"
    /\ UNCHANGED <<chan_write, wcmd>>
    /\ WriterFrame

\* let _ = writer.write_all(b"\n") returns Ok (main.rs:171); the guard is
\* dropped at the end of the turn.
WriterWriteNewline ==
    /\ Running
    /\ wpc = "newline"
    /\ port_out' = Append(port_out, LF)
    /\ wlock' = "free"
    /\ wpc' = "recv"
    /\ UNCHANGED <<chan_write, wcmd, write_fails, stderr>>
    /\ WriterFrame

\* let _ = writer.write_all(b"\n") returns Err (main.rs:171): the result is
\* thrown away, nothing is printed; the guard is dropped at the end of the
\* turn.
WriterWriteNewlineFails ==
    /\ Running
    /\ wpc = "newline"
    /\ write_fails' = write_fails + 1
    /\ wlock' = "free"
    /\ wpc' = "recv"
    /\ UNCHANGED <<chan_write, wcmd, port_out, stderr>>
    /\ WriterFrame

\* ---------------------------------------------------------- specification

\* The keys. chars, maxInput and maxSubmits bound the operator of a run: the
\* characters typed, the bytes of an input typed into, the commands submitted.
Key(chars, maxInput, maxSubmits) ==
    \/ \E c \in chars : Len(input) < maxInput /\ KeyChar(c)
    \/ KeyBackspace
    \/ KeyLeft
    \/ KeyRight
    \/ (Submits(input) => Len(history) < maxSubmits) /\ KeyEnter
    \/ KeyUp
    \/ KeyDown
    \/ KeyPageUp
    \/ KeyPageDown
    \/ KeyEsc

\* The device. texts, terms and maxLines bound the device of a run.
Device(texts, terms, maxLines) ==
    \E text \in texts, term \in terms :
        Len(dev_lines) < maxLines /\ DeviceSend(text, term)

Reader ==
    \/ \E n \in ReadLens : ReaderRead(n)
    \/ ReaderReadZero

\* The whole program: the device, the reader task and the session loop. The
\* device sends lines "A\n"; the operator types commands of one character.
Next ==
    \/ Device({<<65>>}, {<<LF>>}, MaxDevLines)
    \/ Reader
    \/ Draw
    \/ DrainLine
    \/ DrainDone
    \/ PollNone
    \/ Key({97, 32}, 1, MaxSubmits)
    \/ Cleanup

Spec == Init /\ [][Next]_vars

\* A run with a log file.
InitLogging == Init /\ ~no_log

\* The inbound path alone, with no key pressed: the device, the reader task and
\* the drain of the session loop.
NextAssembler ==
    \/ Device(DeviceTexts, Terminators, AsmMaxLines)
    \/ Reader
    \/ Draw
    \/ DrainLine
    \/ DrainDone
    \/ PollNone

SpecAssembler == InitLogging /\ [][NextAssembler]_vars

\* The transcript: the device, the reader task, and a session loop whose
\* operator types "a", submits and scrolls.
NextTranscript ==
    \/ Device({<<65>>}, {<<LF>>}, TrMaxDevLines)
    \/ Reader
    \/ Draw
    \/ DrainLine
    \/ DrainDone
    \/ PollNone
    \/ input = <<>> /\ KeyChar(97)
    \/ (Submits(input) => Len(history) < TrMaxSubmits) /\ KeyEnter
    \/ KeyPageUp
    \/ KeyPageDown

SpecTranscript == InitLogging /\ [][NextTranscript]_vars

\* The session loop alone, with a silent device.
NextEditor ==
    \/ Draw
    \/ DrainDone
    \/ PollNone
    \/ Key(KeyChars, EdMaxInput, EdMaxSubmits)
    \/ Cleanup

SpecEditor == InitLogging /\ [][NextEditor]_vars

\* The writer task (main.rs:163-175) with a port that takes every write.
Writer ==
    \/ WriterRecv
    \/ WriterLock
    \/ WriterWriteCmd
    \/ WriterWriteNewline

\* The writes the port refuses.
WriterFails ==
    \/ \E k \in 0..1 : WriterWriteCmdFails(k)
    \/ WriterWriteNewlineFails

\* The outbound path: an operator who submits commands of one character, "a"
\* and "e-acute" (two bytes), the writer task, and a port that may refuse any
\* write.
NextWriter ==
    \/ Draw
    \/ DrainDone
    \/ PollNone
    \/ \E c \in {97, 233} : input = <<>> /\ KeyChar(c)
    \/ (Submits(input) => Len(history) < WrMaxSubmits) /\ KeyEnter
    \/ Writer
    \/ WriterFails

SpecWriter == InitLogging /\ [][NextWriter]_vars

\* The inbound path with a port whose reads may fail: the device sends lines
\* "A\n", the reader task reads, fails, sleeps and reads again, the session
\* loop drains.
NextReadErr ==
    \/ Device({<<65>>}, {<<LF>>}, RdMaxLines)
    \/ Reader
    \/ Len(stderr) < RdMaxErrs /\ ReaderReadErr
    \/ ReaderWake
    \/ Draw
    \/ DrainLine
    \/ DrainDone
    \/ PollNone

SpecReadErr == InitLogging /\ [][NextReadErr]_vars

\* The session loop alone, on a terminal whose calls may fail.
NextTerminal ==
    \/ NextEditor
    \/ DrawFails
    \/ PollFails
    \/ CleanupRawFails
    \/ CleanupLeaveFails

SpecTerminal == InitLogging /\ [][NextTerminal]_vars

\* A run without a log file and without history variables: its states are
\* finitely many also when the device never stops.
InitLive == Start /\ no_log = TRUE /\ tracking = FALSE

\* One step of the session loop of a run where Escape is pressed at most once
\* and no other key: event::read returns the Escape that waits, or event::poll
\* finds nothing.
LoopStep ==
    \/ Draw
    \/ DrainLine
    \/ DrainDone
    \/ ~esc_pressed /\ PollNone
    \/ esc_pressed /\ KeyEsc
    \/ Cleanup

\* The reader task and the session loop under a device that may send "A\n"
\* whenever the port is empty, for ever; the operator may press Escape.
NextLive ==
    \/ wire = <<>> /\ Device({<<65>>}, {<<LF>>}, 1)
    \/ Len(chan_serial) < LiveMaxQueue /\ Reader
    \/ LoopStep
    \/ PressEsc

\* The runtime schedules both tasks: the session loop takes its next step,
\* each step being a call that returns, and the reader takes its read when
\* bytes wait.
Fairness ==
    /\ WF_vars(Draw)
    /\ WF_vars(DrainLine)
    /\ WF_vars(DrainDone)
    /\ WF_vars(~esc_pressed /\ PollNone)
    /\ WF_vars(esc_pressed /\ KeyEsc)
    /\ WF_vars(Cleanup)
    /\ WF_vars(Len(chan_serial) < LiveMaxQueue /\ \E n \in ReadLens : ReaderRead(n))

SpecLive == InitLive /\ [][NextLive]_vars /\ Fairness

\* The whole program on a port and a log file that may fail: the device sends
\* lines "A\n", the operator submits the command "a", reads and writes of the
\* port may fail, and the log file may start to refuse writes.
NextErrors ==
    \/ Device({<<65>>}, {<<LF>>}, ErrMaxLines)
    \/ Reader
    \/ Len(stderr) < ErrMaxReports /\ ReaderReadErr
    \/ ReaderWake
    \/ Draw
    \/ DrainLine
    \/ DrainDone
    \/ PollNone
    \/ input = <<>> /\ KeyChar(97)
    \/ (Submits(input) => Len(history) < ErrMaxSubmits) /\ KeyEnter
    \/ Writer
    \/ WriterFails
    \/ LogBreaks

SpecErrors == InitLogging /\ [][NextErrors]_vars

\* ------------------------------------------------------------------ claims

Max(a, b) == IF a >= b THEN a ELSE b

\* The last n elements of s.
LastN(s, n) == SubSeq(s, Len(s) - n + 1, Len(s))

\* Lines of both origins were pushed: inbound ones and submitted ones.
BothOrigins ==
    /\ \E i \in 1..Len(appended) : appended[i].style = "Yellow"
    /\ \E i \in 1..Len(appended) : appended[i].style # "Yellow"

\* The latest push found the buffer full, and so evicted.
LastPushEvicted == last_append # None /\ last_append[1].len = MAX_LINES

\* C1: in every state, after any mix of inbound and submitted appends, the
\* transcript buffer holds at most MAX_LINES lines.
C1_BufferCapped == Len(output_lines) <= MAX_LINES

\* C1's case: lines of both origins were pushed, and the latest push came to a
\* full buffer.
C1_Witness == BothOrigins /\ LastPushEvicted /\ Len(output_lines) = MAX_LINES

\* C2: after N appends the buffer holds exactly the last min(N, MAX_LINES)
\* appended lines, in the order of their appends.
C2_LastLinesKept == output_lines = LastN(appended, Min(Len(appended), MAX_LINES))

\* C2's case: two lines or more were evicted, of a mix of both origins whose
\* oldest and newest kept lines differ.
C2_Witness ==
    /\ Len(appended) >= MAX_LINES + 2
    /\ BothOrigins
    /\ output_lines[1] # output_lines[Len(output_lines)]

\* C3: a push changes scroll_offset only when it evicts: a push to a buffer
\* that is not full leaves scroll_offset as it is, a push to a full buffer
\* takes one off a positive scroll_offset and leaves 0 at 0.
C3_AppendScroll ==
    [][appended' # appended =>
          scroll_offset' = IF Len(output_lines) + 1 <= MAX_LINES THEN scroll_offset
                           ELSE IF scroll_offset > 0 THEN scroll_offset - 1
                           ELSE 0]_vars

\* C3's case: the latest push evicted while the view was scrolled up, and
\* scroll_offset is one less than before it.
C3_Witness ==
    /\ LastPushEvicted
    /\ last_append[1].off > 0
    /\ scroll_offset = last_append[1].off - 1

\* C4: in every state scroll_offset <= max(0, len - 1); PageUp adds 3 capped at
\* len - 1, PageDown takes 3 off, floored at 0.
C4_ScrollBound ==
    /\ [](scroll_offset <= Max(0, Len(output_lines) - 1))
    /\ [][KeyPageUp =>
             scroll_offset' = Min(scroll_offset + 3, Max(0, Len(output_lines) - 1))]_vars
    /\ [][KeyPageDown => scroll_offset' = Max(0, scroll_offset - 3)]_vars

\* C4's case: PageUp had brought the view to the oldest line of a full buffer
\* (scroll_offset = len - 1), and a push then evicted that line.
C4_Witness ==
    /\ LastPushEvicted
    /\ last_append[1].off = MAX_LINES - 1
    /\ scroll_offset = MAX_LINES - 2

\* The indexes of the device's logical lines that are not empty.
NonEmptyDevLines == {i \in 1..Len(dev_lines) : dev_lines[i] # <<>>}

\* A string is not empty.
NonEmpty(s) == s # <<>>

\* No byte of s is a line end.
NoTerminator(s) == \A j \in 1..Len(s) : s[j] # LF /\ s[j] # CR

\* C5: a logical line, also one with multi-byte characters, split into chunks
\* in any way, is emitted as exactly one line with the original text: once
\* the reader has read every byte the device sent, the lines it emitted are
\* the device's logical lines that are not empty.
C5_LineSplitting == wire = <<>> => completed = SelectSeq(dev_lines, NonEmpty)

\* C6: a line end sends the pending line only if it is not empty and leaves it
\* empty; consecutive line ends send no empty line; no line sent is empty or
\* holds a line end; "A\r\nB\n" sends "A" then "B".
C6_Terminators ==
    /\ \A i \in 1..Len(completed) : NonEmpty(completed[i]) /\ NoTerminator(completed[i])
    /\ NoTerminator(line)
    /\ wire = <<>> => line = <<>> /\ Len(completed) = Cardinality(NonEmptyDevLines)
    /\ Feed([line |-> <<>>, sent |-> <<>>], ChunkChars(<<65, 13, 10, 66, 10>>))
           = [line |-> <<>>, sent |-> << <<65>>, <<66>> >>]

\* C6's case: the device sent "A", a line end, an empty line and its line
\* end; the reader read all of it and sent the one line "A".
C6_Witness ==
    /\ dev_lines = << <<65>>, <<>> >>
    /\ wire = <<>>
    /\ completed = << <<65>> >>

\* The texts of the inbound lines pushed on output_lines, in order.
RECURSIVE InboundTexts(_)
InboundTexts(ls) ==
    IF ls = <<>> THEN <<>>
    ELSE IF Head(ls).style = "Yellow" THEN InboundTexts(Tail(ls))
    ELSE <<Drop(Head(ls).text, Len(ArduinoPrefix))>> \o InboundTexts(Tail(ls))

\* C7: the inbound lines pushed on the transcript, followed by the lines that
\* wait in the channel, are the lines the reader completed, in their order:
\* none dropped, doubled or moved; and while bytes wait the reader can take
\* its step whatever the session loop does.
C7_InboundFifo ==
    /\ InboundTexts(appended) \o chan_serial = completed
    /\ (Running /\ wire # <<>>) => ENABLED (\E n \in ReadLens : ReaderRead(n))

\* C7's case: the reader completed two different lines; the session loop
\* pushed the first and waits for a key while the second waits in the channel.
C7_Witness ==
    /\ Len(completed) = 2
    /\ completed[1] # completed[2]
    /\ InboundTexts(appended) = <<completed[1]>>
    /\ chan_serial = <<completed[2]>>
    /\ mpc = "poll"

\* The n-th most recent entry of the history, n in 1..Len(history).
NthMostRecent(n) == history[Len(history) - n + 1]

\* How far back the browsing cursor is: 0 when it is None, n when it is on the
\* n-th most recent entry.
BrowseDepth == IF history_index = None THEN 0 ELSE Len(history) - history_index[1]

\* C8: Up from a fresh input recalls the most recent entry, every further Up
\* the next older one, and Up at the oldest entry stays there, the edit cursor
\* at the end of the text each time (so N presses recall the N-th most recent
\* entry, and more than H presses the oldest); Down moves to the next newer
\* entry, and Down at the newest entry leaves an empty input, edit cursor 0
\* and browsing cursor None (so H presses from the oldest entry end there).
C8_HistoryNavigation ==
    /\ [][(KeyUp /\ history # <<>>) =>
             LET n == Min(BrowseDepth + 1, Len(history))
             IN  /\ input' = NthMostRecent(n)
                 /\ cursor_pos' = Len(NthMostRecent(n))
                 /\ history_index' = Some(Len(history) - n)]_vars
    /\ [][(KeyDown /\ history_index # None) =>
             IF BrowseDepth > 1
             THEN /\ input' = NthMostRecent(BrowseDepth - 1)
                  /\ cursor_pos' = Len(NthMostRecent(BrowseDepth - 1))
                  /\ history_index' = Some(Len(history) - BrowseDepth + 1)
             ELSE /\ input' = <<>>
                  /\ cursor_pos' = 0
                  /\ history_index' = None]_vars

\* C8's case: with two different entries in the history, Up was pressed to the
\* oldest one, which is recalled with the edit cursor at its end; Up stays
\* there and Down moves on to the newer entry.
C8_Witness ==
    /\ Len(history) = 2
    /\ history[1] # history[2]
    /\ history_index = Some(0)
    /\ input = history[1]
    /\ cursor_pos = Len(input)
    /\ mpc = "poll"
    /\ ENABLED (KeyUp /\ history_index' = Some(0) /\ input' = history[1])
    /\ ENABLED (KeyDown /\ history_index' = Some(1) /\ input' = history[2])

\* Every character of the input is a space (the empty input too).
OnlySpaces(s) == \A i \in 1..Len(s) : s[i] = 32

\* C9: Enter on an empty or whitespace-only input changes nothing: not the
\* history, the transcript buffer, scroll_offset, the outbound queue, the log,
\* the input, the edit cursor or the browsing cursor.
C9_SubmitIgnore ==
    [][(KeyEnter /\ OnlySpaces(input)) =>
          UNCHANGED <<history, output_lines, appended, scroll_offset, chan_write,
                      enqueued, log, input, cursor_pos, history_index>>]_vars

\* C9's case: the input is one space, the edit cursor after it, the history and
\* the transcript hold lines, the view is scrolled up, and Enter is pressed:
\* the step exists and leaves the input as it is.
C9_Witness ==
    /\ input = <<32>>
    /\ cursor_pos = 1
    /\ history # <<>>
    /\ Len(output_lines) > 1
    /\ scroll_offset > 0
    /\ mpc = "poll"
    /\ ENABLED (KeyEnter /\ input' = <<32>>)

\* The texts of the submitted lines pushed on output_lines, in order.
RECURSIVE OutboundTexts(_)
OutboundTexts(ls) ==
    IF ls = <<>> THEN <<>>
    ELSE IF Head(ls).style # "Yellow" THEN OutboundTexts(Tail(ls))
    ELSE <<Drop(Head(ls).text, Len(SubmitPrefix))>> \o OutboundTexts(Tail(ls))

\* C10: Enter on an input that is not whitespace-only appends the text to the
\* history (also when it equals the latest entry), enqueues it once on the
\* outbound queue, pushes one Outbound line "> text", clears the input, sets
\* the edit cursor to 0 and the browsing cursor to None, all in one step; so
\* the history, the commands ever enqueued and the Outbound lines ever pushed
\* are the same sequence, of the same length.
C10_Submit ==
    /\ [][(KeyEnter /\ ~OnlySpaces(input)) =>
             /\ history' = Append(history, input)
             /\ chan_write' = Append(chan_write, input)
             /\ enqueued' = Append(enqueued, input)
             /\ appended' = Append(appended, [text |-> <<62, 32>> \o input, style |-> "Yellow"])
             /\ output_lines' = LastN(appended', Min(Len(appended'), MAX_LINES))
             /\ input' = <<>>
             /\ cursor_pos' = 0
             /\ history_index' = None]_vars
    /\ [](/\ Len(history) = Len(enqueued)
          /\ Len(history) = Len(OutboundTexts(appended))
          /\ history = enqueued
          /\ history = OutboundTexts(appended))

\* C10's case: the same command was submitted twice in a row, the second time
\* recalled with Up; both are in the history, the input is fresh, and an
\* inbound line was pushed in between or around.
C10_Witness ==
    /\ Len(history) = 2
    /\ history[1] = history[2]
    /\ enqueued = history
    /\ \E i \in 1..Len(appended) : appended[i].style # "Yellow"
    /\ input = <<>>
    /\ cursor_pos = 0
    /\ history_index = None
    /\ mpc = "draw"
    /\ last_append # None
    /\ appended[Len(appended)].style = "Yellow"

\* The bytes of the commands cmds, each followed by "\n".
RECURSIVE WithNewlines(_)
WithNewlines(cmds) ==
    IF cmds = <<>> THEN <<>> ELSE Head(cmds) \o <<10>> \o WithNewlines(Tail(cmds))

\* s is a prefix of t.
IsPrefix(s, t) == Len(s) <= Len(t) /\ SubSeq(t, 1, Len(s)) = s

\* C11: outbound writes are serialized and ordered. While no write has failed,
\* the bytes written to the port are a prefix of the submitted commands in
\* submission order, each followed by "\n"; bytes go out only while the lock
\* is held, the lock taken for a command is kept from the first byte of the
\* command to its newline, and the lock is held exactly while the one writer
\* is inside its write section, so never by two sections at once.
C11_OutboundOrder ==
    /\ [](write_fails = 0 => IsPrefix(port_out, WithNewlines(enqueued)))
    /\ [](wlock = "writer" <=> wpc \in {"cmd", "newline"})
    /\ [](wlock \in {"free", "writer"})
    /\ [][port_out' # port_out => wlock = "writer"]_vars
    /\ [][wpc = "cmd" /\ wpc' = "newline" =>
             /\ wlock = "writer"
             /\ wlock' = "writer"
             /\ port_out' = port_out \o wcmd]_vars
    /\ [][wpc = "newline" /\ wpc' # "newline" /\ write_fails' = write_fails =>
             /\ wlock = "writer"
             /\ port_out' = port_out \o <<10>>]_vars

\* C11's case: two different commands were submitted, "a" then "e-acute",
\* no write failed, and both are on the port in order, each with its newline.
C11_Witness ==
    /\ enqueued = <<<<97>>, <<195, 169>>>>
    /\ write_fails = 0
    /\ port_out = <<97, 10, 195, 169, 10>>
    /\ wlock = "free"

\* C12: a write failure loses the command and nothing else. Every write to the
\* port that fails, of a command's bytes or of its newline, is reported on the
\* spot; the lock is released and the writer is back at its receive, so the
\* failed command is not written again and the commands still queued follow;
\* the session loop is where it was and still runs.
C12_WriteFailure ==
    [][write_fails' # write_fails =>
          /\ stderr' = Append(stderr, "write")
          /\ wlock' = "free"
          /\ wpc' = "recv"
          /\ chan_write' = chan_write
          /\ mpc' = mpc
          /\ Running']_vars

\* C13: a failed read ends neither the reader task nor the session. The
\* reader is always at its read or in its sleep; a failing read is reported,
\* touches neither the bytes that wait, the pending line, the channel nor the
\* session loop, and puts the reader in its sleep; from the sleep the reader
\* can always go back to its read, and goes nowhere else, however many reads
\* failed before; and the lines completed by the reads that succeed are
\* delivered: once every byte is read, the lines sent on the channel are the
\* device's lines, each once and in order, and they reach the transcript in
\* that order.
C13_ReadFailure ==
    /\ [](rpc \in {"read", "sleep"})
    /\ [][rpc = "read" /\ rpc' # "read" =>
             /\ rpc' = "sleep"
             /\ stderr' = Append(stderr, "read")
             /\ UNCHANGED <<wire, line, chan_serial, completed, mpc, output_lines>>
             /\ Running']_vars
    /\ [][rpc = "sleep" /\ rpc' # "sleep" => rpc' = "read" /\ stderr' = stderr]_vars
    /\ []((Running /\ rpc = "sleep") => ENABLED ReaderWake)
    /\ []((Running /\ rpc = "read" /\ wire # <<>>) =>
              ENABLED (\E n \in ReadLens : ReaderRead(n)))
    /\ [](wire = <<>> => line = <<>> /\ completed = dev_lines)
    /\ [](InboundTexts(appended) \o chan_serial = completed)

\* C13's case: two reads failed and were reported, the reader is back at its
\* read, and the two lines the device sent were both delivered and pushed on
\* the transcript.
C13_Witness ==
    /\ Len(stderr) >= 2
    /\ stderr[1] = "read"
    /\ stderr[2] = "read"
    /\ rpc = "read"
    /\ Len(dev_lines) = 2
    /\ wire = <<>>
    /\ completed = dev_lines
    /\ InboundTexts(appended) = dev_lines

\* C14: the terminal is restored on every way out. The session loop leaves its
\* tick only for the cleanup, and when the process has ended, after Escape or
\* after a failing render, cursor show / hide, keyboard poll or read, raw mode
\* is off and the alternate screen is left.
C14_TerminalRestored ==
    /\ [][(mpc \in {"draw", "drain", "poll"} /\ mpc' \notin {"draw", "drain", "poll"})
             => (mpc' = "cleanup")]_vars
    /\ [](~Running => ~raw_mode /\ ~alt_screen)

\* The heights of the scrolling region the claims are checked for.
Heights == 1..MAX_LINES

\* C15: the visual position is kept across an eviction. When the view is
\* scrolled up and an append at capacity evicts the oldest line, the window of
\* every height shows after the append the lines it showed before it, unless
\* the evicted line was one of them.
C15_VisualPosition ==
    [][\A h \in Heights :
          (/\ appended' # appended
           /\ Len(output_lines) = MAX_LINES
           /\ scroll_offset > 0
           /\ VisibleStart(Len(output_lines), h, scroll_offset) > 0)
          => (VisibleWindow(output_lines', h, scroll_offset')
                 = VisibleWindow(output_lines, h, scroll_offset))]_vars

\* C16: the edit cursor is always valid. After any keys, of single-byte or
\* multi-byte characters, Backspace, Left, Right, Enter, Up and Down, cursor_pos
\* is an index from 0 to the length of the input that lies on a character
\* boundary, and no insert or Backspace has faulted.
C16_CursorValid ==
    /\ cursor_pos \in 0..Len(input)
    /\ IsCharBoundary(input, cursor_pos)
    /\ mpc # "panicked"

\* C17: the browsing cursor is valid and browsing leaves the history alone.
\* history_index is None or Some(i) with i an index of the history, counted
\* from 0; it is None while the history is empty; Up and Down, and every step
\* that moves the cursor to an entry, change nothing but the cursor, the input
\* and its edit cursor; and the history changes only by the append of the
\* submitted input.
C17_HistoryCursor ==
    /\ [](history_index = None \/ history_index[1] \in 0..(Len(history) - 1))
    /\ [](history = <<>> => history_index = None)
    /\ [][(KeyUp \/ KeyDown) =>
             UNCHANGED <<history, output_lines, scroll_offset, chan_write, enqueued,
                         appended, log>>]_vars
    /\ [][(history_index' # history_index /\ history_index' # None) =>
             /\ history' = history
             /\ input' = history[history_index'[1] + 1]]_vars
    /\ [][history' # history =>
             /\ Submits(input)
             /\ history' = Append(history, input)
             /\ history_index' = None]_vars

\* C17's case: the operator browses a history of two different commands: Up
\* or Down moved the cursor to the newest entry, whose text is in the input,
\* and the history is what was submitted.
C17_Witness ==
    /\ Len(history) = 2
    /\ history[1] # history[2]
    /\ history_index = Some(1)
    /\ input = history[2]
    /\ history = enqueued
    /\ mpc = "draw"

\* The session is over or in its cleanup.
Terminating == mpc \in {"cleanup", "exited"}

\* C18: the session loop never blocks. Under fair scheduling, whatever the
\* reader sends, every drain that starts ends and the keyboard poll is
\* reached, and a pressed Escape is followed by Terminating.
C18_NeverBlocks ==
    /\ (mpc = "drain") ~> (mpc = "poll")
    /\ esc_pressed ~> Terminating

\* C19: reported errors are surfaced with the traffic. A step that reports a
\* failing read or a failing write of the port puts an entry on the transcript
\* or in the log; a step that reports a failing write of the log puts such an
\* entry on top of the line it could not log; and that line is on the
\* transcript, as its newest line, with the session still running.
C19_ErrorsSurfaced ==
    /\ [][Len(stderr') > Len(stderr) =>
             Len(appended') + Len(log') >
                 Len(appended) + Len(log)
                     + (IF stderr'[Len(stderr')] = "log" THEN 1 ELSE 0)]_vars
    /\ [][(Len(stderr') > Len(stderr) /\ stderr'[Len(stderr')] = "log") =>
             /\ Len(appended') = Len(appended) + 1
             /\ output_lines'[Len(output_lines')] = appended'[Len(appended')]
             /\ Running']_vars

\* C20: commands never run together on the port. The first byte of a command
\* goes out only on a port that is empty so far or whose last byte is "\n":
\* the bytes written of the command before, also of one whose write failed
\* partway or whose newline failed, are followed by "\n".
C20_CommandsSeparated ==
    [][(wpc = "cmd" /\ port_out' # port_out) =>
          (port_out = <<>> \/ port_out[Len(port_out)] = 10)]_vars

====
